---- MODULE Spec2Model ----
(***************************************************************************)
(* State-space search engines of arbor (src/src/lib.rs): Tree, the         *)
(* breadth-first engine over a VecDeque frontier, and PriorityTree, the    *)
(* best-first engine over a BinaryHeap frontier, both with a HashMap       *)
(* ledger `visited` from state to discovering parent.                      *)
(*                                                                         *)
(* The implicit graph (the State / PriorityState trait implementation) is  *)
(* the input: neighbors, is_goal and priority are drawn in Init and never  *)
(* change.  One engine instance is followed through new() and successive   *)
(* calls of run(), one loop iteration per step.                            *)
(***************************************************************************)
EXTENDS Integers, Sequences, FiniteSets, TLC

\* ---------------------------------------------------------------- bounds
NumStates == 3      \* states of the implicit graph are 1..NumStates
MaxEdges == 3       \* total length of all neighbors() vectors
MaxPriority == 1    \* priority() ranges over 0..MaxPriority
MaxCalls == 2       \* calls of run() on one instance
DeepNumStates == 5  \* DeepSpec: states of the graph are 1..DeepNumStates
DeepMaxEdges == 5   \* DeepSpec: total length of all neighbors() vectors

States == 1..NumStates

\* The start state handed to new().  The engines are generic over T and use
\* only Hash and Eq of a state, so which state is the start is immaterial.
start == 1

\* Option::None as a ledger value; Some(p) is the state p itself.
None == 0

\* run() returns Option<Vec<Rc<T>>>: None is the empty sequence, Some(path)
\* is the path, which is never empty (get_path_to_node pushes the node).
NoPath == <<>>

VARIABLES
    neighbors,  \* State::neighbors: States -> Seq(States)
    is_goal,    \* State::is_goal: States -> BOOLEAN
    priority,   \* PriorityState::priority: States -> 0..MaxPriority
    engine,     \* "Tree" or "PriorityTree": the variant instantiated
    queue,      \* the frontier, in push order
    visited,    \* the ledger: recorded state -> parent (None for the start)
    counter,    \* PriorityTree.counter (0 and unused in Tree)
    item,       \* the entry popped by the latest loop iteration of run()
    results,    \* the values returned by the calls of run() so far
    pc,         \* "idle": outside run(); "loop": at the loop test of run();
                \* "hung": inside a get_path_to_node that never returns
    twin        \* a second instance built from the same inputs (TwinSpec)

vars == <<neighbors, is_goal, priority, engine, queue, visited, counter,
          item, results, pc, twin>>

\* ------------------------------------------------------------- the inputs
SeqsUpTo(k) == UNION {[1..m -> States] : m \in 0..k}

Range(s) == {s[i] : i \in DOMAIN s}

Last(s) == s[Len(s)]

RECURSIVE Reverse(_)
Reverse(s) == IF s = <<>> THEN <<>> ELSE Append(Reverse(Tail(s)), Head(s))

\* All neighbors functions on 1..n whose vectors have at most `budget`
\* elements in total.
RECURSIVE Graphs(_, _)
Graphs(n, budget) ==
    IF n = 0 THEN {<<>>}
    ELSE UNION {{Append(g, ns) : g \in Graphs(n - 1, budget - Len(ns))} :
                ns \in SeqsUpTo(budget)}

\* States reachable from the start in the graph nb.
RECURSIVE ReachFrom(_, _)
ReachFrom(nb, seen) ==
    LET more == seen \cup UNION {Range(nb[s]) : s \in seen}
    IN  IF more = seen THEN seen ELSE ReachFrom(nb, more)

Reachable(nb) == ReachFrom(nb, {start})

RECURSIVE Concat(_, _)
Concat(nb, n) == IF n = 0 THEN <<>> ELSE Concat(nb, n - 1) \o nb[n]

\* The engines are generic over T and touch a state only through Hash, Eq,
\* neighbors(), is_goal() and priority(), and they call these only on states
\* reached from the start.  So one graph of each isomorphism class is enough:
\* the one whose states are numbered in the order in which they first occur in
\* neighbors[1] \o neighbors[2] \o ..., and whose states out of reach of the
\* start have no neighbors, are no goal and have priority 0.
CanonicalOn(n, nb) ==
    LET c == Concat(nb, n)
    IN  /\ \A s \in (1..n) \ Reachable(nb) : nb[s] = <<>>
        /\ \A p \in DOMAIN c :
              c[p] <= 1 + Cardinality({start} \cup {c[q] : q \in 1..(p - 1)})

Canonical(nb) == CanonicalOn(NumStates, nb)

\* The same inputs built directly, for graphs too large to filter: the
\* vectors of neighbors(1), ..., neighbors(n) written one after another, m
\* states in all, each state at most one more than the states before it ...
RECURSIVE Concats(_, _)
Concats(n, m) ==
    IF m = 0 THEN {<<>>}
    ELSE UNION {{Append(c, x) :
                    x \in 1..(IF Cardinality({start} \cup Range(c)) < n
                              THEN 1 + Cardinality({start} \cup Range(c))
                              ELSE n)} :
                c \in Concats(n, m - 1)}

\* ... the lengths of n vectors that have m states in all ...
RECURSIVE Lengths(_, _)
Lengths(n, m) ==
    IF n = 0 THEN (IF m = 0 THEN {<<>>} ELSE {})
    ELSE UNION {{Append(l, k) : l \in Lengths(n - 1, m - k)} : k \in 0..m}

RECURSIVE Sum(_, _)
Sum(l, n) == IF n = 0 THEN 0 ELSE Sum(l, n - 1) + l[n]

\* ... and the neighbors function they make.
Cut(c, l) == [s \in DOMAIN l |-> SubSeq(c, Sum(l, s - 1) + 1, Sum(l, s))]

InertOn(n, nb, f, zero) == \A s \in (1..n) \ Reachable(nb) : f[s] = zero

Inert(nb, f, zero) == InertOn(NumStates, nb, f, zero)

\* ------------------------------------------------- helpers of both engines
\* A dedup test that never finds the key.
ContainsKeyNever(v, k) == FALSE

\* HashMap::contains_key
ContainsKey(v, k) == k \in DOMAIN v

\* Recording every state as a root.
InsertAsRoot(v, k, p) == (k :> None) @@ v

\* HashMap::insert: the new value replaces any value the key had
Insert(v, k, p) == (k :> p) @@ v

\* Looking at the entry without taking it out of the frontier.
RemoveNothing(q, i) == q

\* The frontier without the entry at index i (the entry a pop returns)
RemoveAt(q, i) == [j \in 1..(Len(q) - 1) |-> IF j < i THEN q[j] ELSE q[j + 1]]

\* The while loop of get_path_to_node: from `current`, push the ledger parent
\* while there is one.  The loop ends at a key that is absent or maps to None;
\* on a cyclic parent chain it never ends.  A chain without repetition has at
\* most Cardinality(DOMAIN v) links, so running out of `fuel` means a cycle,
\* reported as the empty sequence.
RECURSIVE Walk(_, _, _, _)
Walk(v, current, result, fuel) ==
    IF fuel = 0 THEN <<>>
    ELSE IF current \in DOMAIN v /\ v[current] # None
         THEN Walk(v, v[current], Append(result, v[current]), fuel - 1)
         ELSE result

\* get_path_to_node without its final reverse().
GetPathNoReverse(v, node) == Walk(v, node, <<node>>, Cardinality(DOMAIN v) + 1)

\* get_path_to_node without the push of the node before the loop.
GetPathDropNode(v, node) ==
    LET w == Walk(v, node, <<node>>, Cardinality(DOMAIN v) + 1)
    IN  IF w = <<>> THEN <<>> ELSE Reverse(Tail(w))

\* get_path_to_node pushing the node a second time on entering the loop.
GetPathDupNode(v, node) ==
    LET w == Walk(v, node, <<node>>, Cardinality(DOMAIN v) + 1)
    IN  IF w = <<>> THEN <<>> ELSE Reverse(<<node>> \o w)

\* get_path_to_node: the node, then its ancestors, reversed.  <<>> when the
\* loop does not terminate.
GetPathToNode(v, node) ==
    Reverse(Walk(v, node, <<node>>, Cardinality(DOMAIN v) + 1))

\* An instance between two steps: the struct's fields and the position in
\* run().
Self ==
    [queue |-> queue, visited |-> visited, counter |-> counter,
     item |-> item, results |-> results, pc |-> pc]

\* What the return of a dequeued goal does: run() returns the path, or never
\* returns when get_path_to_node loops.
ReturnPath(e, v, node) ==
    LET path == GetPathToNode(v, node)
    IN  IF path = <<>>
        THEN [e EXCEPT !.pc = "hung"]
        ELSE [e EXCEPT !.pc = "idle", !.results = Append(e.results, path)]

\* Returning the trivial path instead of None.
RunNoneResultStart == <<start>>

\* The value run() returns when the frontier is exhausted.
RunNoneResult == NoPath

\* ------------------------------------------------------------------- Tree
\* Entries for the neighbors other than the parent itself only.
TreeEntriesNoSelfLoop(ns, parent) ==
    LET Keep(t) == t # parent
        kept == SelectSeq(ns, Keep)
    IN  [i \in 1..Len(kept) |-> [current |-> kept[i], prev |-> parent]]

\* Entries naming the neighbor itself as its parent.
TreeEntriesSelfParent(ns, parent) ==
    [i \in 1..Len(ns) |-> [current |-> ns[i], prev |-> ns[i]]]

\* Entries naming the parent as the candidate.
TreeEntriesOfParent(ns, parent) ==
    [i \in 1..Len(ns) |-> [current |-> parent, prev |-> parent]]

\* The entries Tree pushes for the neighbors ns of parent, in order.
TreeEntries(ns, parent) ==
    [i \in 1..Len(ns) |-> [current |-> ns[i], prev |-> parent]]

\* Tree::new
TreeNew(s) ==
    [queue |-> TreeEntries(neighbors[s], s),
     visited |-> (s :> None),
     counter |-> 0,
     item |-> [current |-> None, prev |-> None],
     results |-> <<>>,
     pc |-> "idle"]

\* Popping the back of the deque instead of the front.
PopBack(q) == Len(q)

\* VecDeque::pop_front: the index of the entry that leaves the frontier
PopFront(q) == 1

\* One iteration of the loop of Tree::run, by the branch it takes.  Each
\* operator is the set of instances the iteration can lead to from e.
TreeRunSkip(e) ==
    IF e.pc = "loop" /\ e.queue # <<>>
    THEN LET i == PopFront(e.queue)
             it == e.queue[i]
         IN  IF ContainsKey(e.visited, it.current)
             THEN {[e EXCEPT !.queue = RemoveAt(e.queue, i), !.item = it]}
             ELSE {}
    ELSE {}

TreeRunGoal(e) ==
    IF e.pc = "loop" /\ e.queue # <<>>
    THEN LET i == PopFront(e.queue)
             it == e.queue[i]
             v == Insert(e.visited, it.current, it.prev)
         IN  IF ~ContainsKey(e.visited, it.current) /\ is_goal[it.current]
             THEN {ReturnPath([e EXCEPT !.queue = RemoveAt(e.queue, i),
                                        !.item = it,
                                        !.visited = v],
                              v, it.current)}
             ELSE {}
    ELSE {}

TreeRunExpand(e) ==
    IF e.pc = "loop" /\ e.queue # <<>>
    THEN LET i == PopFront(e.queue)
             it == e.queue[i]
         IN  IF ~ContainsKey(e.visited, it.current) /\ ~is_goal[it.current]
             THEN {[e EXCEPT
                      !.queue = RemoveAt(e.queue, i)
                                \o TreeEntries(neighbors[it.current], it.current),
                      !.item = it,
                      !.visited = Insert(e.visited, it.current, it.prev)]}
             ELSE {}
    ELSE {}

TreeRunNone(e) ==
    IF e.pc = "loop" /\ e.queue = <<>>
    THEN {[e EXCEPT !.pc = "idle", !.results = Append(e.results, RunNoneResult)]}
    ELSE {}

\* ----------------------------------------------------------- PriorityTree
\* core::cmp::Ordering
Less == 0 - 1
Equal == 0
Greater == 1

\* usize::cmp
UsizeCmp(a, b) == IF a < b THEN Less ELSE IF a > b THEN Greater ELSE Equal

\* cmp with the priorities compared the natural way round.
CmpUnreversed(self, other) ==
    LET c == UsizeCmp(self.priority, other.priority)
    IN  IF c # Equal THEN c ELSE UsizeCmp(self.number, other.number)

\* cmp without the then_with on the insertion number.
CmpNoTieBreak(self, other) == UsizeCmp(other.priority, self.priority)

\* Ord for PriorityStateWrapper: other.priority against self.priority, then
\* self.number against other.number
Cmp(self, other) ==
    LET c == UsizeCmp(other.priority, self.priority)
    IN  IF c # Equal THEN c ELSE UsizeCmp(self.number, other.number)

\* BinaryHeap::pop removes a greatest entry under Ord.  The heap's array
\* layout is not modelled: when several entries are greatest, any of them may
\* be the one popped.
PopChoices(q) ==
    {i \in DOMAIN q : \A j \in DOMAIN q : Cmp(q[i], q[j]) # Less}

\* The wrappers PriorityTree::new pushes for the neighbors of the start s:
\* the priority is start.priority(), the number is the counter before its
\* increment.
NewWrappers(s, c) ==
    [i \in 1..Len(neighbors[s]) |->
        [current |-> neighbors[s][i], prev |-> s,
         priority |-> priority[s], number |-> c + i - 1]]

\* Wrappers all numbered with the counter's value before the loop.
RunWrappersSameNumber(cur, c) ==
    [i \in 1..Len(neighbors[cur]) |->
        [current |-> neighbors[cur][i], prev |-> cur,
         priority |-> priority[neighbors[cur][i]], number |-> c]]

\* The wrappers PriorityTree::run pushes for the neighbors of cur: the
\* priority is t.priority() of the neighbor t.
RunWrappers(cur, c) ==
    [i \in 1..Len(neighbors[cur]) |->
        [current |-> neighbors[cur][i], prev |-> cur,
         priority |-> priority[neighbors[cur][i]], number |-> c + i - 1]]

\* PriorityTree::new
PriorityTreeNew(s) ==
    [queue |-> NewWrappers(s, 0),
     visited |-> (s :> None),
     counter |-> Len(neighbors[s]),
     item |-> [current |-> None, prev |-> None, priority |-> 0, number |-> 0],
     results |-> <<>>,
     pc |-> "idle"]

PriorityRunSkip(e) ==
    IF e.pc = "loop" /\ e.queue # <<>>
    THEN {[e EXCEPT !.queue = RemoveAt(e.queue, i), !.item = e.queue[i]] :
            i \in {j \in PopChoices(e.queue) :
                     ContainsKey(e.visited, e.queue[j].current)}}
    ELSE {}

PriorityRunGoal(e) ==
    IF e.pc = "loop" /\ e.queue # <<>>
    THEN {LET it == e.queue[i]
              v == Insert(e.visited, it.current, it.prev)
          IN  ReturnPath([e EXCEPT !.queue = RemoveAt(e.queue, i),
                                   !.item = it,
                                   !.visited = v],
                         v, it.current) :
            i \in {j \in PopChoices(e.queue) :
                     /\ ~ContainsKey(e.visited, e.queue[j].current)
                     /\ is_goal[e.queue[j].current]}}
    ELSE {}

PriorityRunExpand(e) ==
    IF e.pc = "loop" /\ e.queue # <<>>
    THEN {LET it == e.queue[i]
          IN  [e EXCEPT
                 !.queue = RemoveAt(e.queue, i)
                           \o RunWrappers(it.current, e.counter),
                 !.counter = e.counter + Len(neighbors[it.current]),
                 !.item = it,
                 !.visited = Insert(e.visited, it.current, it.prev)] :
            i \in {j \in PopChoices(e.queue) :
                     /\ ~ContainsKey(e.visited, e.queue[j].current)
                     /\ ~is_goal[e.queue[j].current]}}
    ELSE {}

PriorityRunNone(e) ==
    IF e.pc = "loop" /\ e.queue = <<>>
    THEN {[e EXCEPT !.pc = "idle", !.results = Append(e.results, RunNoneResult)]}
    ELSE {}

\* A call of run() on an idle instance enters the loop.
\* A call of run() that starts over from what new() built.
CallRunRestart(e) ==
    IF e.pc = "idle" /\ Len(e.results) < MaxCalls
    THEN {[(IF engine = "Tree" THEN TreeNew(start) ELSE PriorityTreeNew(start))
              EXCEPT !.results = e.results, !.pc = "loop"]}
    ELSE {}

CallRun(e) ==
    IF e.pc = "idle" /\ Len(e.results) < MaxCalls
    THEN {[e EXCEPT !.pc = "loop"]}
    ELSE {}

\* ------------------------------------------------------ the state machine
New(s) == IF engine = "Tree" THEN TreeNew(s) ELSE PriorityTreeNew(s)

Become(e) ==
    /\ queue' = e.queue
    /\ visited' = e.visited
    /\ counter' = e.counter
    /\ item' = e.item
    /\ results' = e.results
    /\ pc' = e.pc
    /\ UNCHANGED <<neighbors, is_goal, priority, engine>>

Init ==
    /\ neighbors \in Graphs(NumStates, MaxEdges)
    /\ Canonical(neighbors)
    /\ is_goal \in [States -> BOOLEAN]
    /\ Inert(neighbors, is_goal, FALSE)
    /\ engine \in {"Tree", "PriorityTree"}
    /\ priority \in IF engine = "Tree" THEN {[s \in States |-> 0]}
                    ELSE [States -> 0..MaxPriority]
    /\ Inert(neighbors, priority, 0)
    /\ queue = New(start).queue
    /\ visited = New(start).visited
    /\ counter = New(start).counter
    /\ item = New(start).item
    /\ results = New(start).results
    /\ pc = New(start).pc
    /\ twin = New(start)

\* The steps of the instance itself; what the twin does meanwhile is said by
\* the specification.
RunStep == \E e \in CallRun(Self) : Become(e)

TreeSkipStep == engine = "Tree" /\ \E e \in TreeRunSkip(Self) : Become(e)

TreeGoalStep == engine = "Tree" /\ \E e \in TreeRunGoal(Self) : Become(e)

TreeExpandStep == engine = "Tree" /\ \E e \in TreeRunExpand(Self) : Become(e)

TreeNoneStep == engine = "Tree" /\ \E e \in TreeRunNone(Self) : Become(e)

PrioritySkipStep ==
    engine = "PriorityTree" /\ \E e \in PriorityRunSkip(Self) : Become(e)

PriorityGoalStep ==
    engine = "PriorityTree" /\ \E e \in PriorityRunGoal(Self) : Become(e)

PriorityExpandStep ==
    engine = "PriorityTree" /\ \E e \in PriorityRunExpand(Self) : Become(e)

PriorityNoneStep ==
    engine = "PriorityTree" /\ \E e \in PriorityRunNone(Self) : Become(e)

\* Spec: one instance.
Run == RunStep /\ UNCHANGED twin

TreeSkip == TreeSkipStep /\ UNCHANGED twin

TreeGoal == TreeGoalStep /\ UNCHANGED twin

TreeExpand == TreeExpandStep /\ UNCHANGED twin

TreeNone == TreeNoneStep /\ UNCHANGED twin

PrioritySkip == PrioritySkipStep /\ UNCHANGED twin

PriorityGoal == PriorityGoalStep /\ UNCHANGED twin

PriorityExpand == PriorityExpandStep /\ UNCHANGED twin

PriorityNone == PriorityNoneStep /\ UNCHANGED twin

Next ==
    \/ Run
    \/ TreeSkip
    \/ TreeGoal
    \/ TreeExpand
    \/ TreeNone
    \/ PrioritySkip
    \/ PriorityGoal
    \/ PriorityExpand
    \/ PriorityNone

Spec == Init /\ [][Next]_vars

\* LiveSpec: Spec with the loop of run() kept running.  run() is synchronous
\* and single-threaded with no suspension point, so an iteration that can be
\* taken is taken; nothing obliges the caller to call run() again.
Loop ==
    \/ TreeSkip
    \/ TreeGoal
    \/ TreeExpand
    \/ TreeNone
    \/ PrioritySkip
    \/ PriorityGoal
    \/ PriorityExpand
    \/ PriorityNone

LiveSpec == Init /\ [][Next]_vars /\ WF_vars(Loop)

\* DeepSpec: Tree alone, on the larger graphs of DeepNumStates states and
\* DeepMaxEdges transitions.
DeepInit ==
    /\ \E m \in 0..DeepMaxEdges :
          \E c \in Concats(DeepNumStates, m), l \in Lengths(DeepNumStates, m) :
             neighbors = Cut(c, l)
    /\ CanonicalOn(DeepNumStates, neighbors)
    /\ is_goal \in [1..DeepNumStates -> BOOLEAN]
    /\ InertOn(DeepNumStates, neighbors, is_goal, FALSE)
    /\ engine = "Tree"
    /\ priority = [s \in 1..DeepNumStates |-> 0]
    /\ queue = New(start).queue
    /\ visited = New(start).visited
    /\ counter = New(start).counter
    /\ item = New(start).item
    /\ results = New(start).results
    /\ pc = New(start).pc
    /\ twin = New(start)

DeepNext ==
    \/ Run
    \/ TreeSkip
    \/ TreeGoal
    \/ TreeExpand
    \/ TreeNone

DeepSpec == DeepInit /\ [][DeepNext]_vars

\* TwinSpec: two instances of the same variant built from the same start over
\* the same neighbors, is_goal and priority.  Each step is one step of the
\* first and, if it can take one, one of the second, each with its own choice
\* wherever the code leaves one.
Steps(e) ==
    CallRun(e) \cup
    (IF engine = "Tree"
     THEN TreeRunSkip(e) \cup TreeRunGoal(e) \cup TreeRunExpand(e)
          \cup TreeRunNone(e)
     ELSE PriorityRunSkip(e) \cup PriorityRunGoal(e) \cup PriorityRunExpand(e)
          \cup PriorityRunNone(e))

TwinStep == IF Steps(twin) = {} THEN UNCHANGED twin ELSE twin' \in Steps(twin)

TwinRun == RunStep /\ TwinStep

TwinTreeSkip == TreeSkipStep /\ TwinStep

TwinTreeGoal == TreeGoalStep /\ TwinStep

TwinTreeExpand == TreeExpandStep /\ TwinStep

TwinTreeNone == TreeNoneStep /\ TwinStep

TwinPrioritySkip == PrioritySkipStep /\ TwinStep

TwinPriorityGoal == PriorityGoalStep /\ TwinStep

TwinPriorityExpand == PriorityExpandStep /\ TwinStep

TwinPriorityNone == PriorityNoneStep /\ TwinStep

TwinNext ==
    \/ TwinRun
    \/ TwinTreeSkip
    \/ TwinTreeGoal
    \/ TwinTreeExpand
    \/ TwinTreeNone
    \/ TwinPrioritySkip
    \/ TwinPriorityGoal
    \/ TwinPriorityExpand
    \/ TwinPriorityNone

TwinSpec == Init /\ [][TwinNext]_vars

\* ------------------------------------------------------------ the claims
Goals == {s \in States : is_goal[s]}

IsPath(r) == r # NoPath

Edges(path) == Len(path) - 1

\* Graph distance from the start to the nearest state of G, counted in
\* transitions; -1 when no state of G can be reached.
RECURSIVE DistTo(_, _, _, _)
DistTo(G, seen, front, d) ==
    IF front \cap G # {} THEN d
    ELSE IF front = {} THEN 0 - 1
    ELSE DistTo(G, seen \cup front,
                (UNION {Range(neighbors[s]) : s \in front}) \ (seen \cup front),
                d + 1)

MinDistance(G) == DistTo(G, {}, {start}, 0)

\* C1 as stated: whenever some goal can be reached from the start (the start
\* itself included), the first run() of Tree returns a path whose number of
\* edges is the minimum distance from the start to a goal.
C1_ShortestToAnyGoal ==
    (engine = "Tree" /\ Len(results) >= 1 /\ MinDistance(Goals) >= 0)
    => (IsPath(results[1]) /\ Edges(results[1]) = MinDistance(Goals))

\* C1 amended: the seed is never goal-checked, so the goals that count are
\* the goal states other than the start.  Whenever one of them can be reached,
\* the first run() of Tree returns a path whose number of edges is the minimum
\* distance from the start to a goal state other than the start.
C1_ShortestToOtherGoal ==
    (engine = "Tree" /\ Len(results) >= 1 /\ MinDistance(Goals \ {start}) >= 0)
    => (IsPath(results[1])
        /\ Edges(results[1]) = MinDistance(Goals \ {start}))

\* Tree has returned a two-edge path from a start that is itself a goal.
C1_Witness ==
    /\ engine = "Tree"
    /\ is_goal[start]
    /\ Len(results) >= 1
    /\ IsPath(results[1])
    /\ Edges(results[1]) = 2

\* C2: every path returned by run(), of either engine, starts with the start
\* state, ends with a goal state, and each state of it is followed by one of
\* its neighbors().
C2_PathWellFormed ==
    \A k \in DOMAIN results :
        IsPath(results[k]) =>
            LET path == results[k]
            IN  /\ path[1] = start
                /\ is_goal[Last(path)]
                /\ \A i \in 1..(Len(path) - 1) :
                      path[i + 1] \in Range(neighbors[path[i]])

\* PriorityTree has returned a path of at least two edges.
C2_Witness ==
    /\ engine = "PriorityTree"
    /\ \E k \in DOMAIN results : IsPath(results[k]) /\ Edges(results[k]) >= 2

\* C3: at the loop test of run() with the frontier empty, run() returns None
\* and leaves the ledger alone, and run() returns None at no other point; and
\* when the start has no neighbors the first loop test of the first call
\* already finds the frontier empty and returns None with the ledger holding
\* only the start.
C3_NoPathOnExhaustion ==
    [][/\ (pc = "loop" /\ queue = <<>>)
          => (/\ pc' = "idle"
              /\ results' = Append(results, NoPath)
              /\ visited' = visited
              /\ queue' = queue)
       /\ (results' # results /\ Last(results') = NoPath)
          => (pc = "loop" /\ queue = <<>>)
       /\ (pc = "loop" /\ results = <<>> /\ neighbors[start] = <<>>)
          => (/\ queue = <<>>
              /\ results' = <<NoPath>>
              /\ visited' = (start :> None))]_vars

\* A call of run() has returned None after recording every state.
C3_Witness ==
    /\ pc = "idle"
    /\ Len(results) >= 1
    /\ results[1] = NoPath
    /\ DOMAIN visited = States

\* C4: no returned path ends in the start state, so every returned path has
\* at least two states; and when no goal state other than the start can be
\* reached, the first run() returns None.
C4_SeedNeverGoalChecked ==
    /\ \A k \in DOMAIN results :
          IsPath(results[k]) =>
              (Last(results[k]) # start /\ Len(results[k]) >= 2)
    /\ (Len(results) >= 1 /\ MinDistance(Goals \ {start}) < 0)
          => results[1] = NoPath

\* The start is a goal and an expanded state of the returned path has it as
\* a neighbor (a cycle has brought the start back into the frontier).
C4_Witness ==
    /\ is_goal[start]
    /\ Len(results) >= 1
    /\ IsPath(results[1])
    /\ \E i \in 2..(Len(results[1]) - 1) :
          start \in Range(neighbors[results[1][i]])

\* The pop of an iteration of PriorityTree::run is about to happen.
PriorityPop == engine = "PriorityTree" /\ pc = "loop" /\ queue # <<>>

\* C5: among the frontier entries whose priority equals that of the popped
\* entry, the popped entry has the smallest insertion number.
C5_FifoAmongEqualPriority ==
    [][PriorityPop =>
          \A j \in DOMAIN queue :
              queue[j].priority = item'.priority
                  => item'.number <= queue[j].number]_vars

\* C6: every frontier entry of PriorityTree carries the priority() of its own
\* candidate state.
C6_EntryCarriesOwnPriority ==
    engine = "PriorityTree" =>
        \A j \in DOMAIN queue :
            queue[j].priority = priority[queue[j].current]

\* C7: the entry a pop of PriorityTree::run removes is an entry of the
\* frontier whose carried priority is minimal among all entries then in it.
C7_PopsMinimalPriority ==
    [][PriorityPop =>
          /\ \E j \in DOMAIN queue : queue[j] = item'
          /\ \A j \in DOMAIN queue : item'.priority <= queue[j].priority]_vars

\* The popped entry was pushed after an entry of larger priority that is
\* still in the frontier.
C7_Witness ==
    /\ engine = "PriorityTree"
    /\ item.prev # None
    /\ \E j \in DOMAIN queue :
          queue[j].priority > item.priority /\ queue[j].number < item.number

\* C8: a key of the ledger stays a key, with the parent value it was recorded
\* with, in every later state.
C8_LedgerWriteOnce ==
    [][\A s \in DOMAIN visited :
          s \in DOMAIN visited' /\ visited'[s] = visited[s]]_vars

\* The popped entry's candidate is in the ledger with another parent than
\* the entry's.
C8_Witness ==
    /\ item.prev # None
    /\ item.current \in DOMAIN visited
    /\ visited[item.current] # None
    /\ visited[item.current] # item.prev

\* C9: no returned path holds the same state twice.
C9_NoDuplicateInPath ==
    \A k \in DOMAIN results :
        \A i, j \in DOMAIN results[k] :
            i # j => results[k][i] # results[k][j]

\* A path of at least two edges was returned in a graph where a state of the
\* path has an earlier state of the path as a neighbor (a cycle), and a state
\* of the path is a neighbor of two states (two ways to reach it).
C9_Witness ==
    \E k \in DOMAIN results :
        /\ IsPath(results[k])
        /\ Edges(results[k]) >= 2
        /\ \E i, j \in DOMAIN results[k] :
              i < j /\ results[k][i] \in Range(neighbors[results[k][j]])
        /\ \E i \in DOMAIN results[k] : \E s, t \in States :
              /\ s # t
              /\ results[k][i] \in Range(neighbors[s])
              /\ results[k][i] \in Range(neighbors[t])

\* C10: the second instance, making its own choice wherever a step leaves
\* one, is at every step in the same state as the first (same frontier,
\* ledger, counter, popped entry and returned values), and no step of an
\* instance has more than one outcome.
C10_TwinAgrees == twin = Self /\ Cardinality(Steps(Self)) <= 1

\* Both PriorityTree instances have returned the same path after a first pop
\* among several entries of equal priority.
C10_Witness ==
    /\ engine = "PriorityTree"
    /\ Len(neighbors[start]) >= 2
    /\ Len(results) >= 1
    /\ IsPath(results[1])
    /\ twin.results = results

\* Tree::new(start) followed by one call of run(), on the graph of the
\* current behaviour: the loop iterations of Tree::run until it returns.
TreeLoop(e) ==
    TreeRunSkip(e) \cup TreeRunGoal(e) \cup TreeRunExpand(e) \cup TreeRunNone(e)

RECURSIVE TreeRunToReturn(_)
TreeRunToReturn(e) ==
    IF e.pc = "loop" /\ TreeLoop(e) # {}
    THEN TreeRunToReturn(CHOOSE x \in TreeLoop(e) : TRUE)
    ELSE e

TreeFirstResult ==
    LET e == TreeRunToReturn([TreeNew(start) EXCEPT !.pc = "loop"])
    IN  IF e.results = <<>> THEN NoPath ELSE e.results[1]

\* C11: whenever a call of PriorityTree::run() has returned a path, run() on
\* a Tree built from the same start over the same graph returns a path too,
\* and the priority engine's path has at least as many edges as it.
C11_PriorityPathNotShorter ==
    engine = "PriorityTree" =>
        \A k \in DOMAIN results :
            IsPath(results[k]) =>
                /\ IsPath(TreeFirstResult)
                /\ Edges(results[k]) >= Edges(TreeFirstResult)

\* PriorityTree's first call has returned a path with more edges than Tree's.
C11_Witness ==
    /\ engine = "PriorityTree"
    /\ Len(results) >= 1
    /\ IsPath(results[1])
    /\ IsPath(TreeFirstResult)
    /\ Edges(results[1]) > Edges(TreeFirstResult)

\* C12: every call of run(), of either engine, returns: from the loop test
\* the instance reaches the state after a return (a path from a terminating
\* get_path_to_node, or None), whatever cycles the graph has.
C12_RunTerminates == (pc = "loop") ~> (pc = "idle")

\* A call has returned a path in a graph where two expanded states are
\* neighbors of each other.
C12_Witness ==
    /\ pc = "idle"
    /\ Len(results) >= 1
    /\ IsPath(results[Len(results)])
    /\ \E s, t \in DOMAIN visited :
          /\ s # t
          /\ t \in Range(neighbors[s])
          /\ s \in Range(neighbors[t])

\* The keys a step adds to the ledger.
NewKeys == DOMAIN visited' \ DOMAIN visited

\* C13: every ledger entry with parent Some(p) has p as a ledger key, and p
\* was inserted at a strictly earlier step: the parent of a key a step inserts
\* is another state, already a key before the step.
C13_ParentRecordedEarlier ==
    [][/\ \A s \in DOMAIN visited' :
             visited'[s] # None => visited'[s] \in DOMAIN visited'
       /\ \A s \in NewKeys :
             visited'[s] \in DOMAIN visited /\ visited'[s] # s]_vars

\* The ledger holds a state whose parent is itself a state with a parent.
C13_Witness ==
    \E s \in DOMAIN visited :
        /\ visited[s] # None
        /\ visited[visited[s]] # None

\* C14: the start is in the ledger with parent None, and no other ledger
\* entry has parent None.
C14_OnlyRootHasNoParent ==
    /\ start \in DOMAIN visited
    /\ \A s \in DOMAIN visited : visited[s] = None <=> s = start

\* The ledger holds the start and at least two other states.
C14_Witness ==
    /\ Cardinality(DOMAIN visited) >= 3
    /\ visited[start] = None

\* The pop of an iteration of run(), of either engine, is about to happen.
Pop == pc = "loop" /\ queue # <<>>

\* queue' begins with the frontier less the popped entry item'.
RestKept ==
    \E j \in DOMAIN queue :
        /\ queue[j] = item'
        /\ engine = "Tree" => j = 1
        /\ SubSeq(queue', 1, Len(queue) - 1) = RemoveAt(queue, j)

\* C15: an iteration that records a candidate that is no goal enqueues one
\* entry for every element of candidate.neighbors(), in that order behind the
\* entries already in the frontier, with the candidate as parent, whether or
\* not the neighbor is in the ledger.
C15_EnqueuesEveryNeighbor ==
    [][(Pop /\ item'.current \notin DOMAIN visited /\ ~is_goal[item'.current])
       => LET ns == neighbors[item'.current]
              n == Len(queue) - 1
          IN  /\ Len(queue') = n + Len(ns)
              /\ RestKept
              /\ \A i \in 1..Len(ns) :
                    /\ queue'[n + i].current = ns[i]
                    /\ queue'[n + i].prev = item'.current]_vars

\* The frontier holds an entry, pushed by the candidate just recorded, for
\* the candidate's own parent.
C15_Witness ==
    /\ item.current \in DOMAIN visited
    /\ \E j \in DOMAIN queue :
          /\ queue[j].prev = item.current
          /\ queue[j].current = visited[item.current]

\* C16: an iteration that pops an entry whose candidate is in the ledger
\* only removes that entry from the frontier: ledger, counter and returned
\* values stay as they are and run() goes on to the next loop test, also when
\* the candidate is a goal.
C16_SkipOnlyDequeues ==
    [][(Pop /\ item'.current \in DOMAIN visited)
       => /\ visited' = visited
          /\ counter' = counter
          /\ results' = results
          /\ pc' = "loop"
          /\ Len(queue') = Len(queue) - 1
          /\ RestKept]_vars

\* An entry for the start, which is a goal, has been popped and discarded.
C16_Witness ==
    /\ pc = "loop"
    /\ item.current = start
    /\ is_goal[start]

\* The insertion numbers in the frontier, which the model keeps in push
\* order, increase strictly and are below the counter.
NumbersInOrder(q, c) ==
    /\ \A i \in DOMAIN q : q[i].number < c
    /\ \A i, j \in DOMAIN q : i < j => q[i].number < q[j].number

\* C17: the counter of PriorityTree is the number of pushes so far: after
\* new() the seed entries are numbered 0, 1, ... and the counter is their
\* count, and an iteration of run() that pushes k entries numbers them
\* counter, counter + 1, ... and adds k to the counter.  So frontier entries
\* have pairwise distinct numbers, each below the counter, and an entry
\* pushed later has a larger number than one pushed earlier.
C17_CounterNumbersPushes ==
    [][engine = "PriorityTree" =>
          /\ NumbersInOrder(queue, counter)
          /\ NumbersInOrder(queue', counter')
          /\ (pc = "idle" /\ results = <<>>)
                => /\ counter = Len(queue)
                   /\ \A i \in DOMAIN queue : queue[i].number = i - 1
          /\ Pop => /\ counter' - counter = Len(queue') - (Len(queue) - 1)
                    /\ \A i \in 1..(counter' - counter) :
                          queue'[Len(queue) - 1 + i].number = counter + i - 1
          /\ ~Pop => counter' = counter]_vars

\* The frontier holds an entry pushed by new() and one pushed by run().
C17_Witness ==
    /\ engine = "PriorityTree"
    /\ Len(queue) >= 2
    /\ queue[1].prev = start
    /\ queue[Len(queue)].prev # start
    /\ queue[1].number < Len(neighbors[start])
    /\ queue[Len(queue)].number >= Len(neighbors[start])

\* The states the engine expands when it records them: every state that is
\* no goal; and the start, which new() expands without a goal check.
Expanded(s) == s = start \/ ~is_goal[s]

\* Distance from the start to s along transitions out of expanded states
\* only; -1 when there is no such route.
RECURSIVE ExpandedDistTo(_, _, _, _)
ExpandedDistTo(s, seen, front, d) ==
    IF s \in front THEN d
    ELSE IF front = {} THEN 0 - 1
    ELSE ExpandedDistTo(
             s, seen \cup front,
             (UNION {Range(neighbors[t]) : t \in {u \in front : Expanded(u)}})
                 \ (seen \cup front),
             d + 1)

ExpandedDist(s) == ExpandedDistTo(s, {}, {start}, 0)

\* dist(start, s) in the whole graph
Dist(s) == DistTo({s}, {}, {start}, 0)

\* The number of ledger parents followed from s to the start.
ChainLen(v, s) == Len(Walk(v, s, <<s>>, Cardinality(DOMAIN v) + 1)) - 1

\* C18 as stated: in Tree, the parent chain of every recorded state s has
\* dist(start, s) links, and no state is recorded after a state that is
\* farther from the start.
C18_LedgerIsShortestPathTree ==
    [][engine = "Tree" =>
          /\ \A s \in DOMAIN visited' : ChainLen(visited', s) = Dist(s)
          /\ \A s \in NewKeys : \A t \in DOMAIN visited :
                Dist(t) <= Dist(s)]_vars

\* C18 amended: a recorded goal is never expanded, so the distance that
\* counts is along transitions out of the start and out of states that are no
\* goal.  The parent chain of every recorded state has that many links and
\* states are recorded in non-decreasing order of it; and for every state
\* recorded before the first call of run() has returned it is dist(start, s).
C18_LedgerIsExpandedPathTree ==
    [][engine = "Tree" =>
          /\ \A s \in DOMAIN visited' :
                ChainLen(visited', s) = ExpandedDist(s)
          /\ \A s \in NewKeys : \A t \in DOMAIN visited :
                ExpandedDist(t) <= ExpandedDist(s)
          /\ results = <<>> =>
                \A s \in DOMAIN visited' : ChainLen(visited', s) = Dist(s)]_vars

\* Tree has recorded a state that is nearer to the start through a goal than
\* through expanded states.
C18_Witness ==
    /\ engine = "Tree"
    /\ \E s \in DOMAIN visited : Dist(s) < ExpandedDist(s)

\* C19: in both engines every frontier entry has its parent recorded as a
\* ledger key and its candidate among the neighbors of that parent; and every
\* ledger key is a state reachable from the start.
C19_FrontierHangsOnLedger ==
    /\ \A i \in DOMAIN queue :
          /\ queue[i].prev \in DOMAIN visited
          /\ queue[i].current \in Range(neighbors[queue[i].prev])
    /\ DOMAIN visited \subseteq Reachable(neighbors)

\* The frontier holds a candidate whose parent is not the start, next to a
\* ledger that has grown.
C19_Witness ==
    /\ \E i \in DOMAIN queue : queue[i].prev # start
    /\ Cardinality(DOMAIN visited) >= 2

\* The goals the calls of run() so far have returned.
Returned == {Last(results[i]) : i \in {j \in DOMAIN results : results[j] # NoPath}}

\* C20: run() called again on the same instance resumes: the call leaves the
\* frontier and the ledger as the call before left them; the paths of
\* successive calls end in pairwise distinct goals; a goal that was returned
\* is never expanded (it is no parent, in the frontier or in the ledger); and
\* once a call has returned None every later call returns None and the ledger
\* no longer changes.
C20_RunResumes ==
    /\ [](/\ \A i, j \in DOMAIN results :
                i < j /\ results[i] # NoPath /\ results[j] # NoPath
                    => Last(results[i]) # Last(results[j])
          /\ \A g \in Returned : is_goal[g]
          /\ \A i \in DOMAIN queue : queue[i].prev \notin Returned
          /\ \A s \in DOMAIN visited : visited[s] \notin Returned
          /\ \A i, j \in DOMAIN results :
                i < j /\ results[i] = NoPath => results[j] = NoPath)
    /\ [][/\ pc = "idle" =>
                queue' = queue /\ visited' = visited /\ counter' = counter
          /\ (\E i \in DOMAIN results : results[i] = NoPath) =>
                visited' = visited]_vars

\* Two calls of run() have each returned a path.
C20_Witness ==
    /\ Len(results) = 2
    /\ results[1] # NoPath
    /\ results[2] # NoPath

====
